---- MODULE Spec2Model ----
(***************************************************************************)
(* Claw2ClawHook: peer-to-peer order matching hook for a Uniswap v4 pool.  *)
(* State machine of the contract's storage, the ERC-20 balances it moves   *)
(* and the result of the last transaction.  Every transaction is atomic:   *)
(* a revert restores the storage and the balances.                          *)
(***************************************************************************)
EXTENDS Integers, Naturals, Sequences, FiniteSets, TLC

\* ---------------------------------------------------------------- bounds
MaxOrders == 2        \* postOrder is explored while nextOrderId < MaxOrders
MaxTime == 3          \* block.timestamp is explored up to MaxTime
W128 == 4             \* width used for the 128-bit integer types
W256 == 8             \* width used for the 256-bit integer types

\* ------------------------------------------------------ program constants
MAX_ORDER_DURATION == 2592000
MAX_ITERATIONS == 100

Uint128Max == 2^W128 - 1
Int128Max == 2^(W128 - 1) - 1
Int128Min == -(2^(W128 - 1))
Int256Min == -(2^(W256 - 1))

\* ------------------------------------------------------------ identities
ZERO == "0x0"
HOOK == "hook"
PM == "poolManager"
Deployer == "admin"
Bots == {"botA", "botB"}
Users == Bots \cup {Deployer}
Holders == Users \cup {HOOK, PM}
Tokens == {"token0", "token1"}

PoolKey(fee, spacing) ==
    [currency0 |-> "token0", currency1 |-> "token1", fee |-> fee,
     tickSpacing |-> spacing, hooks |-> HOOK]
Key1 == PoolKey(3000, 60)
Key2 == PoolKey(500, 10)
Keys == {Key1, Key2}

\* keccak256(abi.encode(key)): the encoding of all five fields of the key
PoolIdOfNoFee(key) == <<key.currency0, key.currency1, key.hooks>>
PoolIdOf(key) ==
    <<key.currency0, key.currency1, key.fee, key.tickSpacing, key.hooks>>
PoolIds == {PoolIdOf(k) : k \in Keys}

NoOrder == -1
ZERO_DELTA == <<0, 0>>

VARIABLES
    admin,              \* address public admin
    pendingAdmin,       \* address public pendingAdmin
    allowedBots,        \* mapping(address => bool), as the set mapped to true
    nextOrderId,        \* uint256 public nextOrderId
    orders,             \* mapping(uint256 => Order), ids 0 .. nextOrderId-1
    poolOrders,         \* mapping(bytes32 => uint256[])
    unclaimedBalances,  \* mapping(address => mapping(address => uint256))
    balances,           \* ERC-20 balanceOf, per token and holder
    now,                \* block.timestamp
    trades,             \* order ids of the P2PTrade events emitted so far
    postedKey,          \* the PoolKey each order was posted with
    last                \* the last transaction: call, outcome, return values

hookState == <<admin, pendingAdmin, allowedBots, nextOrderId, orders,
               poolOrders, unclaimedBalances>>
vars == <<admin, pendingAdmin, allowedBots, nextOrderId, orders, poolOrders,
          unclaimedBalances, balances, now, trades, postedKey, last>>

\* --------------------------------------------------------------- helpers
Min(a, b) == IF a < b THEN a ELSE b

RECURSIVE SumOver(_, _)
SumOver(S, f) ==
    IF S = {} THEN 0
    ELSE LET x == CHOOSE y \in S : TRUE IN f[x] + SumOver(S \ {x}, f)

OrderIds == 0 .. (nextOrderId - 1)

\* the asset an order offers: sellToken0 ? key.currency0 : key.currency1
TokenIn(key, sellToken0) ==
    IF sellToken0 THEN key.currency0 ELSE key.currency1

\* ERC-20 transfer of amt from one holder to another
Move(bal, token, from, to, amt) ==
    [bal EXCEPT ![token] =
        [h \in Holders |->
            IF from = to THEN bal[token][h]
            ELSE IF h = from THEN bal[token][h] - amt
            ELSE IF h = to THEN bal[token][h] + amt
            ELSE bal[token][h]]]

\* int128(uint128(x)): the bits of x read as a signed value of the same width
ToInt128(x) == IF x > Int128Max THEN x - 2^W128 ELSE x

\* a call back into the hook made by the callee of an external call: the
\* function called, its msg.sender, its argument and, for a purge, the refund
\* transfer (1st, 2nd, ...) during which it is made
NoCallback == [fn |-> "none", sender |-> ZERO, arg |-> ZERO, at |-> 0]
\* what became of it, and the storage its callee could read at that moment
NoNested ==
    [fn |-> "none", sender |-> ZERO, arg |-> ZERO, outcome |-> "none",
     saw |-> <<>>]

\* the arguments kept of a beforeSwap call, of a purgeExpiredOrders call and
\* of addBot / removeBot (msg.sender and bot)
NoArgs == [sender |-> ZERO, key |-> Key1, zeroForOne |-> FALSE,
           amountSpecified |-> 0, maxPurge |-> 0, bot |-> ZERO]

\* what a transaction returns or reverts with, and the external calls it made
Result(op) ==
    [op |-> op, outcome |-> "ok", orderId |-> NoOrder, delta |-> ZERO_DELTA,
     fee |-> 0, calls |-> <<>>, purged |-> <<>>, failed |-> {}, amount |-> 0,
     scanned |-> 0, args |-> NoArgs, nested |-> NoNested]

Revert(r, err) ==
    /\ last' = [r EXCEPT !.outcome = err]
    /\ UNCHANGED <<hookState, balances, now, trades, postedKey>>

\* return (IHooks.beforeSwap.selector, BeforeSwapDeltaLibrary.ZERO_DELTA, 0)
FallThrough(r) ==
    /\ last' = r
    /\ UNCHANGED <<hookState, balances, now, trades, postedKey>>

\* a nested call while a nonReentrant function is running: the modifiers of
\* the function called run in their order (onlyWhitelisted or onlyPoolManager
\* before nonReentrant), the functions without nonReentrant run as usual.
\* adm is [admin, pendingAdmin, allowedBots], the storage they read and write
EntryPoints ==
    {"postOrder", "cancelOrder", "beforeSwap", "purgeExpiredOrders",
     "claimRefund", "addBot", "removeBot", "setAdmin", "acceptAdmin"}
Getters == {"getPoolOrders", "orders", "unclaimedBalances"}
Reenter(adm, cb) ==
    CASE cb.fn = "none" -> [adm EXCEPT !.outcome = "none"]
      [] cb.fn \in Getters -> [adm EXCEPT !.outcome = "ok"]
      [] cb.fn = "postOrder" ->
            [adm EXCEPT !.outcome =
                IF cb.sender \notin adm.allowedBots THEN "NotWhitelisted"
                ELSE "ReentrancyGuardReentrantCall"]
      [] cb.fn = "beforeSwap" ->
            [adm EXCEPT !.outcome =
                IF cb.sender # PM THEN "OnlyPoolManager"
                ELSE "ReentrancyGuardReentrantCall"]
      [] cb.fn \in {"cancelOrder", "purgeExpiredOrders", "claimRefund"} ->
            [adm EXCEPT !.outcome = "ReentrancyGuardReentrantCall"]
      [] cb.fn = "addBot" ->
            IF cb.sender # adm.admin THEN [adm EXCEPT !.outcome = "NotAdmin"]
            ELSE [adm EXCEPT !.outcome = "ok",
                             !.allowedBots = @ \cup {cb.arg}]
      [] cb.fn = "removeBot" ->
            IF cb.sender # adm.admin THEN [adm EXCEPT !.outcome = "NotAdmin"]
            ELSE [adm EXCEPT !.outcome = "ok", !.allowedBots = @ \ {cb.arg}]
      [] cb.fn = "setAdmin" ->
            IF cb.sender # adm.admin THEN [adm EXCEPT !.outcome = "NotAdmin"]
            ELSE IF cb.arg = ZERO THEN [adm EXCEPT !.outcome = "ZeroAddress"]
            ELSE [adm EXCEPT !.outcome = "ok", !.pendingAdmin = cb.arg]
      [] cb.fn = "acceptAdmin" ->
            IF cb.sender # adm.pendingAdmin
            THEN [adm EXCEPT !.outcome = "NotPendingAdmin"]
            ELSE [adm EXCEPT !.outcome = "ok", !.admin = cb.sender,
                             !.pendingAdmin = ZERO]

\* the storage a callee can read through the public getters during the call
Saw(ords, idx, uncl, next) ==
    [orders |-> ords, poolOrders |-> idx, unclaimedBalances |-> uncl,
     nextOrderId |-> next]

\* the callback, if any, made during an external call: its effect on the
\* storage and what is kept of it
Reentered(cb) ==
    Reenter([admin |-> admin, pendingAdmin |-> pendingAdmin,
             allowedBots |-> allowedBots, outcome |-> "none"], cb)
Callback(cb) ==
    /\ admin' = Reentered(cb).admin
    /\ pendingAdmin' = Reentered(cb).pendingAdmin
    /\ allowedBots' = Reentered(cb).allowedBots
Nested(cb, saw) ==
    IF cb.fn = "none" THEN NoNested
    ELSE [fn |-> cb.fn, sender |-> cb.sender, arg |-> cb.arg,
          outcome |-> Reentered(cb).outcome, saw |-> saw]

\* SafeERC20 safeTransfer / safeTransferFrom: goes through only if the token
\* accepts the transfer (tokenOk) and the payer holds the amount
SafeTransferUnchecked(tokenOk, balance, amount) == TRUE
SafeTransferOk(tokenOk, balance, amount) == tokenOk /\ balance >= amount

\* allowedBots[sender]
IsAllowedAll(allowed, sender) == TRUE
IsAllowed(allowed, sender) == sender \in allowed

\* absAmount > uint256(uint128(type(int128).max)) is rejected
FitsInt128Any(absAmount) == TRUE
FitsInt128(absAmount) == ~(absAmount > Int128Max)

\* the amount cancelOrder and purgeExpiredOrders send back: order.amountIn
RefundAmountMin(order) == order.minAmountOut
RefundAmount(order) == order.amountIn

\* ------------------------------------------------------------------ Init
\* the balances setUp mints, scaled to the model's widths: each bot holds
\* BotMint of each asset, less than 2^127; the pool manager holds more than a
\* bot and less than 2^128; the admin and the hook hold nothing
BotMint == Int128Max - 1
LedgerMint == 2 * BotMint
InitBalance(h) ==
    IF h \in Bots THEN BotMint ELSE IF h = PM THEN LedgerMint ELSE 0

\* the state after construction, the assets held as bal
Deployed(bal) ==
    /\ admin = Deployer
    /\ pendingAdmin = ZERO
    /\ allowedBots = {}
    /\ nextOrderId = 0
    /\ orders = <<>>
    /\ poolOrders = [p \in PoolIds |-> <<>>]
    /\ unclaimedBalances = [u \in Users |-> [t \in Tokens |-> 0]]
    /\ balances = bal
    /\ now = 1
    /\ trades = {}
    /\ postedKey = <<>>
    /\ last = Result("constructor")

Init == Deployed([t \in Tokens |-> [h \in Holders |-> InitBalance(h)]])

\* ------------------------------------------------------------------ admin
\* allowedBots[bot] = true / allowedBots[bot] = false
SetAllowedToggle(allowed, bot, value) ==
    IF bot \in allowed THEN allowed \ {bot} ELSE allowed \cup {bot}
SetAllowed(allowed, bot, value) ==
    IF value THEN allowed \cup {bot} ELSE allowed \ {bot}

addBot(sender, bot) ==
    LET r == [Result("addBot") EXCEPT
                !.args = [NoArgs EXCEPT !.sender = sender, !.bot = bot]] IN
    IF sender # admin THEN Revert(r, "NotAdmin")
    ELSE /\ allowedBots' = SetAllowed(allowedBots, bot, TRUE)
         /\ last' = r
         /\ UNCHANGED <<admin, pendingAdmin, nextOrderId, orders, poolOrders,
                        unclaimedBalances, balances, now, trades, postedKey>>

removeBot(sender, bot) ==
    LET r == [Result("removeBot") EXCEPT
                !.args = [NoArgs EXCEPT !.sender = sender, !.bot = bot]] IN
    IF sender # admin THEN Revert(r, "NotAdmin")
    ELSE /\ allowedBots' = SetAllowed(allowedBots, bot, FALSE)
         /\ last' = r
         /\ UNCHANGED <<admin, pendingAdmin, nextOrderId, orders, poolOrders,
                        unclaimedBalances, balances, now, trades, postedKey>>

setAdmin(sender, newAdmin) ==
    LET r == Result("setAdmin") IN
    IF sender # admin THEN Revert(r, "NotAdmin")
    ELSE IF newAdmin = ZERO THEN Revert(r, "ZeroAddress")
    ELSE /\ pendingAdmin' = newAdmin
         /\ last' = r
         /\ UNCHANGED <<admin, allowedBots, nextOrderId, orders, poolOrders,
                        unclaimedBalances, balances, now, trades, postedKey>>

acceptAdminAny(sender) ==
    LET r == Result("acceptAdmin") IN
    /\ admin' = sender
    /\ pendingAdmin' = ZERO
    /\ last' = r
    /\ UNCHANGED <<allowedBots, nextOrderId, orders, poolOrders,
                   unclaimedBalances, balances, now, trades, postedKey>>
acceptAdmin(sender) ==
    LET r == Result("acceptAdmin") IN
    IF sender # pendingAdmin THEN Revert(r, "NotPendingAdmin")
    ELSE /\ admin' = sender
         /\ pendingAdmin' = ZERO
         /\ last' = r
         /\ UNCHANGED <<allowedBots, nextOrderId, orders, poolOrders,
                        unclaimedBalances, balances, now, trades, postedKey>>

\* ------------------------------------------------------------- postOrder
\* if (duration > MAX_ORDER_DURATION) revert DurationTooLong()
DurationTooLongNever(duration) == FALSE
DurationTooLong(duration) == duration > MAX_ORDER_DURATION

\* orderId = nextOrderId++: the value nextOrderId holds afterwards
PostIncrementNone(n) == n
PostIncrement(n) == n + 1

postOrder(sender, key, sellToken0, amountIn, minAmountOut, duration, tokenOk, cb) ==
    LET r == Result("postOrder")
        poolId == PoolIdOf(key)
        orderId == nextOrderId
        tokenIn == TokenIn(key, sellToken0)
        stored == [i \in 0 .. orderId |->
                IF i = orderId
                THEN [maker |-> sender, sellToken0 |-> sellToken0,
                      amountIn |-> amountIn, minAmountOut |-> minAmountOut,
                      expiry |-> now + duration, active |-> TRUE,
                      poolId |-> poolId]
                ELSE orders[i]]
        \* safeTransferFrom is issued before poolOrders[poolId].push(orderId)
        saw == Saw(stored, poolOrders, unclaimedBalances, nextOrderId + 1)
    IN
    IF ~IsAllowed(allowedBots, sender) THEN Revert(r, "NotWhitelisted")
    ELSE IF amountIn = 0 \/ minAmountOut = 0 THEN Revert(r, "InvalidAmounts")
    ELSE IF duration = 0 THEN Revert(r, "InvalidDuration")
    ELSE IF DurationTooLong(duration) THEN Revert(r, "DurationTooLong")
    ELSE IF ~SafeTransferOk(tokenOk, balances[tokenIn][sender], amountIn)
         THEN Revert(r, "TransferFailed")
    ELSE /\ nextOrderId' = PostIncrement(nextOrderId)
         /\ orders' = stored
         /\ balances' = Move(balances, tokenIn, sender, HOOK, amountIn)
         /\ Callback(cb)
         /\ poolOrders' = [poolOrders EXCEPT ![poolId] = Append(@, orderId)]
         /\ postedKey' = [i \in 0 .. orderId |->
                             IF i = orderId THEN key ELSE postedKey[i]]
         /\ last' = [r EXCEPT !.orderId = orderId,
                               !.nested = Nested(cb, saw)]
         /\ UNCHANGED <<unclaimedBalances, now, trades>>

\* ---------------------------------------------------------- _removeOrder
removeOrderLast(ids, orderId) ==
    IF ids = <<>> THEN ids ELSE SubSeq(ids, 1, Len(ids) - 1)
removeOrder(ids, orderId) ==
    IF \E i \in 1 .. Len(ids) : ids[i] = orderId
    THEN LET i == CHOOSE j \in 1 .. Len(ids) :
                    /\ ids[j] = orderId
                    /\ \A k \in 1 .. (j - 1) : ids[k] # orderId
             n == Len(ids)
         IN [j \in 1 .. (n - 1) |-> IF j = i THEN ids[n] ELSE ids[j]]
    ELSE ids

\* ----------------------------------------------------------- cancelOrder
\* if (msg.sender != order.maker) revert Unauthorized()
UnauthorizedNever(order, sender) == FALSE
Unauthorized(order, sender) == sender # order.maker

cancelOrder(sender, orderId, key, tokenOk, cb) ==
    LET r == Result("cancelOrder")
        poolId == PoolIdOf(key)
    IN
    IF orderId >= nextOrderId THEN Revert(r, "OrderNotFound")
    ELSE IF orders[orderId].maker = ZERO THEN Revert(r, "OrderNotFound")
    ELSE IF Unauthorized(orders[orderId], sender)
         THEN Revert(r, "Unauthorized")
    ELSE IF ~orders[orderId].active THEN Revert(r, "OrderNotActive")
    ELSE IF poolId # orders[orderId].poolId THEN Revert(r, "PoolMismatch")
    ELSE
      LET order == orders[orderId]
          tokenIn == TokenIn(key, order.sellToken0)
          \* order.active = false; _removeOrder(poolId, orderId)
          closed == [orders |-> [orders EXCEPT ![orderId].active = FALSE],
                     poolOrders |-> [poolOrders EXCEPT
                                       ![poolId] = removeOrder(@, orderId)]]
          \* then safeTransfer(order.maker, order.amountIn)
          saw == Saw(closed.orders, closed.poolOrders, unclaimedBalances,
                     nextOrderId)
      IN
      IF ~SafeTransferOk(tokenOk, balances[tokenIn][HOOK], RefundAmount(order))
      THEN Revert(r, "TransferFailed")
      ELSE /\ orders' = closed.orders
           /\ poolOrders' = closed.poolOrders
           /\ balances' = Move(balances, tokenIn, HOOK, order.maker,
                               RefundAmount(order))
           /\ Callback(cb)
           /\ last' = [r EXCEPT !.orderId = orderId,
                                 !.amount = RefundAmount(order),
                                 !.nested = Nested(cb, saw)]
           /\ UNCHANGED <<nextOrderId, unclaimedBalances, now, trades,
                          postedKey>>

\* --------------------------------------------------------- getPoolOrders
getPoolOrders(key) == poolOrders[PoolIdOf(key)]

\* ------------------------------------------------------------ beforeSwap
\* the filters of the scan loop: the order is skipped unless all four pass
PassesNoExpiry(o, zeroForOne, takerAmountIn, t) ==
    /\ o.active
    /\ o.sellToken0 # zeroForOne
    /\ ~(takerAmountIn < o.minAmountOut)
PassesStrict(o, zeroForOne, takerAmountIn, t) ==
    /\ ~(~o.active \/ t > o.expiry)
    /\ ~(o.sellToken0 = zeroForOne)
    /\ ~(takerAmountIn <= o.minAmountOut)
PassesNoAmount(o, zeroForOne, takerAmountIn, t) ==
    /\ ~(~o.active \/ t > o.expiry)
    /\ o.sellToken0 # zeroForOne
Passes(o, zeroForOne, takerAmountIn, t) ==
    /\ ~(~o.active \/ t > o.expiry)
    /\ ~(o.sellToken0 = zeroForOne)
    /\ ~(takerAmountIn < o.minAmountOut)

\* maxIter = orderIds.length < MAX_ITERATIONS ? orderIds.length : MAX_ITERATIONS
MaxIterAll(ids) == Len(ids)
MaxIter(ids) == IF Len(ids) < MAX_ITERATIONS THEN Len(ids) ELSE MAX_ITERATIONS

\* position (1-based) of the first index entry the loop matches, 0 if none
FindMatchLast(ids, ords, zeroForOne, takerAmountIn, t) ==
    LET C == {i \in 1 .. MaxIter(ids) :
                Passes(ords[ids[i]], zeroForOne, takerAmountIn, t)}
    IN IF C = {} THEN 0 ELSE CHOOSE i \in C : \A j \in C : i >= j
FindMatch(ids, ords, zeroForOne, takerAmountIn, t) ==
    LET C == {i \in 1 .. MaxIter(ids) :
                Passes(ords[ids[i]], zeroForOne, takerAmountIn, t)}
    IN IF C = {} THEN 0 ELSE CHOOSE i \in C : \A j \in C : i <= j

\* the index entries the loop has read when it ends: up to the match, or maxIter
Scanned(ids, pos) == IF pos = 0 THEN MaxIter(ids) ELSE pos

\* uint128 takerPays = order.minAmountOut
TakerPaysFull(order, takerAmountIn) == takerAmountIn
TakerPays(order, takerAmountIn) == order.minAmountOut

\* toBeforeSwapDelta(int128(uint128(takerPays)), -int128(uint128(amountIn)))
SwapDelta(takerPays, amountIn) ==
    <<ToInt128(takerPays), -ToInt128(amountIn)>>

\* order.active = false; _removeOrder(poolId, matchedOrderId)
FillOrderNone(st, poolId, orderId) == st
FillOrder(st, poolId, orderId) ==
    [orders |-> [st.orders EXCEPT ![orderId].active = FALSE],
     poolOrders |-> [st.poolOrders EXCEPT
                       ![poolId] = removeOrder(@, orderId)]]

Call(fn, asset, to, amount) ==
    [fn |-> fn, asset |-> asset, to |-> to, amount |-> amount]

SwapFailures == {"none", "take", "transfer", "settle"}

\* modifier onlyPoolManager: msg.sender == address(poolManager)
onlyPoolManagerAny(msgSender) == TRUE
onlyPoolManager(msgSender) == msgSender = PM

beforeSwap(msgSender, sender, key, zeroForOne, amountSpecified, fail, cb) ==
    LET r == [Result("beforeSwap") EXCEPT
                !.args = [NoArgs EXCEPT
                            !.sender = sender, !.key = key,
                            !.zeroForOne = zeroForOne,
                            !.amountSpecified = amountSpecified]]
        absAmount == -amountSpecified
        poolId == PoolIdOf(key)
        orderIds == poolOrders[poolId]
        pos == FindMatch(orderIds, orders, zeroForOne, absAmount, now)
    IN
    IF ~onlyPoolManager(msgSender) THEN Revert(r, "OnlyPoolManager")
    ELSE IF ~IsAllowed(allowedBots, sender) THEN FallThrough(r)
    ELSE IF amountSpecified >= 0 THEN FallThrough(r)
    ELSE IF amountSpecified = Int256Min THEN Revert(r, "AmountOverflow")
    ELSE IF ~FitsInt128(absAmount) THEN Revert(r, "AmountOverflow")
    ELSE IF pos = 0
         THEN FallThrough([r EXCEPT !.scanned = Scanned(orderIds, pos)])
    ELSE
      LET matchedOrderId == orderIds[pos]
          order == orders[matchedOrderId]
          inputCurrency == IF zeroForOne THEN key.currency0 ELSE key.currency1
          outputCurrency == IF zeroForOne THEN key.currency1 ELSE key.currency0
          takerPays == TakerPays(order, absAmount)
          afterTake == Move(balances, inputCurrency, PM, order.maker, takerPays)
          afterPay == Move(afterTake, outputCurrency, HOOK, PM, order.amountIn)
          settled == afterPay[outputCurrency][PM] - afterTake[outputCurrency][PM]
          filled == FillOrder([orders |-> orders, poolOrders |-> poolOrders],
                              poolId, matchedOrderId)
          \* take, sync, safeTransfer and settle are issued after both writes
          saw == Saw(filled.orders, filled.poolOrders, unclaimedBalances,
                     nextOrderId)
      IN
      IF fail = "take" \/ balances[inputCurrency][PM] < takerPays
      THEN Revert(r, "TakeFailed")
      ELSE IF fail = "transfer" \/ afterTake[outputCurrency][HOOK] < order.amountIn
      THEN Revert(r, "TransferFailed")
      ELSE IF fail = "settle" THEN Revert(r, "SettleFailed")
      ELSE IF ToInt128(order.amountIn) = Int128Min THEN Revert(r, "Panic")
      ELSE /\ orders' = filled.orders
           /\ poolOrders' = filled.poolOrders
           /\ balances' = afterPay
           /\ trades' = trades \cup {matchedOrderId}
           /\ last' = [r EXCEPT
                 !.orderId = matchedOrderId,
                 !.scanned = Scanned(orderIds, pos),
                 !.delta = SwapDelta(takerPays, order.amountIn),
                 !.calls = <<Call("take", inputCurrency, order.maker, takerPays),
                             Call("sync", outputCurrency, ZERO, 0),
                             Call("transfer", outputCurrency, PM, order.amountIn),
                             Call("settle", outputCurrency, ZERO, settled)>>,
                 !.nested = Nested(cb, saw)]
           /\ Callback(cb)
           /\ UNCHANGED <<nextOrderId, unclaimedBalances, now, postedKey>>

\* ---------------------------------------------------- purgeExpiredOrders
\* reverts: whether a refused transfer reverts (TRUE) or returns false
\* refused: the (token, recipient) pairs for which IERC20(token).transfer
\* reverts or returns false
\* unclaimedBalances[order.maker][token] += order.amountIn
CreditOverwrite(unclaimed, maker, token, amount) ==
    [unclaimed EXCEPT ![maker][token] = amount]
Credit(unclaimed, maker, token, amount) ==
    [unclaimed EXCEPT ![maker][token] = @ + amount]

\* order.active && block.timestamp > order.expiry
PurgeableFrom(order, t) == order.active /\ t >= order.expiry
Purgeable(order, t) == order.active /\ t > order.expiry

\* the position the loop reaches by i++ from position i: the first entry at
\* or after i that is active and expired, or the end of the index
NextExpired(ids, ords, i, t) ==
    LET E == {j \in i .. Len(ids) : Purgeable(ords[ids[j]], t)}
    IN IF E = {} THEN Len(ids) + 1 ELSE CHOOSE j \in E : \A k \in E : j <= k

\* the position examined after a purge: i is not incremented, the entry
\* swapped into position i is examined next
AfterPurgeInc(i) == i + 1
AfterPurge(i) == i

\* the while loop; st carries ids, orders, unclaimed, balances, i, purged and,
\* per refund transfer, the storage at the moment the transfer is issued:
\* order.active is false, the swap-and-pop has not been done yet
RECURSIVE PurgeLoop(_, _, _, _, _)
PurgeLoop(st, key, maxPurge, refused, t) ==
    IF ~(st.i <= Len(st.ids) /\ Len(st.purged) < maxPurge) THEN st
    ELSE
      LET expiredId == st.ids[st.i]
          order == st.orders[expiredId]
      IN
      IF Purgeable(order, t)
      THEN
        LET token == TokenIn(key, order.sellToken0)
            amount == RefundAmount(order)
            success == /\ <<token, order.maker>> \notin refused
                       /\ st.balances[token][HOOK] >= amount
            n == Len(st.ids)
            atTransfer ==
                [orders |-> [st.orders EXCEPT ![expiredId].active = FALSE],
                 ids |-> st.ids, unclaimed |-> st.unclaimed]
        IN PurgeLoop(
             [st EXCEPT
                !.orders = [st.orders EXCEPT ![expiredId].active = FALSE],
                !.saws = Append(st.saws, atTransfer),
                !.balances = IF success
                             THEN Move(st.balances, token, HOOK, order.maker,
                                       amount)
                             ELSE st.balances,
                !.unclaimed = IF success THEN st.unclaimed
                              ELSE Credit(st.unclaimed, order.maker, token,
                                          amount),
                !.ids = [j \in 1 .. (n - 1) |->
                           IF j = st.i THEN st.ids[n] ELSE st.ids[j]],
                !.i = AfterPurge(st.i),
                !.purged = Append(st.purged, expiredId),
                !.failed = IF success THEN st.failed
                           ELSE st.failed \cup {expiredId}],
             key, maxPurge, refused, t)
      ELSE PurgeLoop([st EXCEPT
                         !.i = NextExpired(st.ids, st.orders, st.i + 1, t)],
                     key, maxPurge, refused, t)

purgeExpiredOrders(sender, key, maxPurge, refused, reverts, cb) ==
    LET poolId == PoolIdOf(key)
        st == PurgeLoop([ids |-> poolOrders[poolId], orders |-> orders,
                         unclaimed |-> unclaimedBalances,
                         balances |-> balances, i |-> 1, purged |-> <<>>,
                         failed |-> {}, saws |-> <<>>],
                        key, maxPurge, refused, now)
        \* the callback is made by the callee of the cb.at-th refund transfer,
        \* if that transfer is made; it is kept if the transfer goes through
        \* or the token returns false (try ... returns (bool success)), and
        \* rolled back with the callee's frame if the token reverts (catch)
        returnedFalse(id) ==
            /\ ~reverts
            /\ <<TokenIn(key, orders[id].sellToken0), orders[id].maker>>
                  \in refused
        called == /\ cb.at \in 1 .. Len(st.purged)
                  /\ \/ st.purged[cb.at] \notin st.failed
                     \/ returnedFalse(st.purged[cb.at])
        made == IF called THEN cb ELSE NoCallback
        saw == Saw(st.saws[cb.at].orders,
                   [poolOrders EXCEPT ![poolId] = st.saws[cb.at].ids],
                   st.saws[cb.at].unclaimed, nextOrderId)
    IN
    /\ orders' = st.orders
    /\ poolOrders' = [poolOrders EXCEPT ![poolId] = st.ids]
    /\ unclaimedBalances' = st.unclaimed
    /\ balances' = st.balances
    /\ last' = [Result("purgeExpiredOrders") EXCEPT
                    !.args = [NoArgs EXCEPT !.sender = sender, !.key = key,
                                              !.maxPurge = maxPurge],
                    !.purged = st.purged, !.failed = st.failed,
                    \* the order whose refund transfer made the callback
                    !.orderId = IF called THEN st.purged[cb.at] ELSE NoOrder,
                    !.nested = Nested(made, saw)]
    /\ Callback(made)
    /\ UNCHANGED <<nextOrderId, now, trades, postedKey>>

\* ----------------------------------------------------------- claimRefund
ClaimZeroedAfter(unclaimed, zeroed) == unclaimed
ClaimZeroed(unclaimed, zeroed) == zeroed

claimRefund(sender, token, tokenOk, cb) ==
    LET r == Result("claimRefund")
        amount == unclaimedBalances[sender][token]
        \* unclaimedBalances[msg.sender][token] = 0
        zeroed == [unclaimedBalances EXCEPT ![sender][token] = 0]
        \* then safeTransfer(msg.sender, amount)
        saw == Saw(orders, poolOrders,
                   ClaimZeroed(unclaimedBalances, zeroed), nextOrderId)
    IN
    IF amount = 0 THEN Revert(r, "InvalidAmounts")
    ELSE IF ~SafeTransferOk(tokenOk, balances[token][HOOK], amount)
         THEN Revert(r, "TransferFailed")
    ELSE /\ unclaimedBalances' = zeroed
         /\ balances' = Move(balances, token, HOOK, sender, amount)
         /\ Callback(cb)
         /\ last' = [r EXCEPT
                        !.amount = amount,
                        !.calls = <<Call("transfer", token, sender, amount)>>,
                        !.nested = Nested(cb, saw)]
         /\ UNCHANGED <<nextOrderId, orders, poolOrders, now, trades,
                        postedKey>>

\* ------------------------------------------------------------------ time
Warp ==
    /\ now < MaxTime
    /\ now' = now + 1
    /\ last' = Result("warp")
    /\ UNCHANGED <<hookState, balances, trades, postedKey>>

\* ------------------------------------------------------------------ Next
\* the inputs explored: botA makes, botB takes; orders sell 3 for at least 2
Makers == {"botA"}
Takers == {"botB"}
Purgers == {"botB"}
SwapAmounts == {1, 0, -1, -2, -3, -(Int128Max + 1), Int256Min}
SwapInputs ==
    ({Key1} \X {TRUE} \X SwapAmounts) \cup ({Key1, Key2} \X {FALSE} \X {-3})
MaxPurge == 2
Refusals == {{}, {<<"token0", "botA">>}}
\* the markets and directions orders are posted in
PostInputs == {<<Key1, TRUE>>, <<Key1, FALSE>>, <<Key2, TRUE>>}
\* purges of up to MaxPurge orders; transfers are refused in full purges
PurgeInputs ==
    ((0 .. MaxPurge) \X {{}}) \cup ({MaxPurge} \X (Refusals \ {{}}))

AddBot == \E b \in Bots : addBot(Deployer, b)
\* botB is removed before the first order is posted; removals at any time
\* are explored by RemoveBotAny
RemoveBot ==
    /\ nextOrderId = 0
    /\ \E b \in Takers : removeBot(Deployer, b)
PostOrder ==
    /\ nextOrderId < MaxOrders
    /\ \E s \in Makers, in \in PostInputs :
          postOrder(s, in[1], in[2], 3, 2, 1, TRUE, NoCallback)
CancelOrder ==
    \E s \in Makers, id \in 0 .. (nextOrderId - 1), k \in Keys :
        cancelOrder(s, id, k, TRUE, NoCallback)
BeforeSwap ==
    \E s \in Takers, in \in SwapInputs :
        beforeSwap(PM, s, in[1], in[2], in[3], "none", NoCallback)
BeforeSwapFails ==
    \E s \in Takers, f \in SwapFailures \ {"none"} :
        beforeSwap(PM, s, Key1, FALSE, -3, f, NoCallback)
PurgeExpiredOrders ==
    \E s \in Purgers, k \in Keys, in \in PurgeInputs :
        purgeExpiredOrders(s, k, in[1], in[2], TRUE, NoCallback)
ClaimRefund ==
    \E s \in Makers, t \in Tokens : claimRefund(s, t, TRUE, NoCallback)

Next ==
    \/ AddBot
    \/ RemoveBot
    \/ PostOrder
    \/ CancelOrder
    \/ BeforeSwap
    \/ BeforeSwapFails
    \/ PurgeExpiredOrders
    \/ ClaimRefund
    \/ Warp

Spec == Init /\ [][Next]_vars

\* the same operations on orders whose amountIn is around 2^127
WideAmounts == {Int128Max, Int128Max + 1, Int128Max + 2}
PostOrderWide ==
    /\ nextOrderId < MaxOrders
    /\ \E s \in Makers, sell \in BOOLEAN, a \in WideAmounts :
          postOrder(s, Key1, sell, a, 2, 1, TRUE, NoCallback)
PurgeExpiredOrdersWide ==
    \E s \in Purgers, refused \in {{}, {<<"token0", "botA">>}} :
        purgeExpiredOrders(s, Key1, MaxPurge, refused, TRUE, NoCallback)

NextWide ==
    \/ AddBot
    \/ PostOrderWide
    \/ CancelOrder
    \/ BeforeSwap
    \/ BeforeSwapFails
    \/ PurgeExpiredOrdersWide
    \/ ClaimRefund
    \/ Warp

\* the maker is minted WideMint more of each asset, enough to escrow orders
\* of 2^127 and above
WideMint == 2 * Uint128Max
InitWide ==
    Deployed([t \in Tokens |-> [h \in Holders |->
                IF h \in Makers THEN InitBalance(h) + WideMint
                ELSE InitBalance(h)]])

SpecWide == InitWide /\ [][NextWide]_vars

\* the operations with external calls that fail or call back into the hook,
\* and the two-step admin transfer; one market, botA makes, botB takes
Call1(fn, sender, arg) == [fn |-> fn, sender |-> sender, arg |-> arg, at |-> 1]
Callbacks ==
    {NoCallback,
     Call1("postOrder", "botA", ZERO), Call1("cancelOrder", "botA", ZERO),
     Call1("beforeSwap", PM, ZERO), Call1("purgeExpiredOrders", "botA", ZERO),
     Call1("claimRefund", "botA", ZERO),
     Call1("addBot", Deployer, "botB"), Call1("removeBot", Deployer, "botB"),
     Call1("setAdmin", Deployer, "botA"), Call1("acceptAdmin", "botA", ZERO),
     Call1("getPoolOrders", "botA", ZERO), Call1("unclaimedBalances", "botA", ZERO),
     [Call1("getPoolOrders", "botA", ZERO) EXCEPT !.at = 2]}

\* the callbacks explored in calls whose external call fails afterwards
RolledBack == {NoCallback, Call1("addBot", Deployer, "botB")}
\* an external call that goes through with any callback, or fails
Outcomes(failures) ==
    ({"none"} \X Callbacks) \cup ((failures \ {"none"}) \X RolledBack)

AddBotCalls == \E s \in {Deployer, "botA"}, b \in Bots : addBot(s, b)
SetAdmin ==
    \E s \in {Deployer, "botB"}, a \in {ZERO, "botA"} : setAdmin(s, a)
AcceptAdmin == \E s \in {Deployer, "botA"} : acceptAdmin(s)
PostOrderCalls ==
    /\ nextOrderId < MaxOrders
    /\ \E o \in Outcomes({"none", "token"}) :
          postOrder("botA", Key1, TRUE, 3, 2, 1, o[1] = "none", o[2])
CancelOrderCalls ==
    \E id \in OrderIds, o \in Outcomes({"none", "token"}) :
        cancelOrder("botA", id, Key1, o[1] = "none", o[2])
BeforeSwapCalls ==
    \E o \in Outcomes(SwapFailures) :
        beforeSwap(PM, "botB", Key1, FALSE, -3, o[1], o[2])
\* refund transfers that go through with any callback, that revert, and
\* that return false after any callback
PurgeCalls ==
    ({{}} \X {TRUE} \X Callbacks)
    \cup ({{<<"token0", "botA">>}} \X {TRUE} \X RolledBack)
    \cup ({{<<"token0", "botA">>}} \X {FALSE} \X Callbacks)
PurgeExpiredOrdersCalls ==
    \E in \in PurgeCalls :
        purgeExpiredOrders(Deployer, Key1, MaxPurge, in[1], in[2], in[3])
ClaimRefundCalls ==
    \E o \in Outcomes({"none", "token"}) :
        claimRefund("botA", "token0", o[1] = "none", o[2])

NextCalls ==
    \/ AddBotCalls
    \/ SetAdmin
    \/ AcceptAdmin
    \/ PostOrderCalls
    \/ CancelOrderCalls
    \/ BeforeSwapCalls
    \/ PurgeExpiredOrdersCalls
    \/ ClaimRefundCalls
    \/ Warp

SpecCalls == Init /\ [][NextCalls]_vars

\* the operations called by every kind of caller and with the arguments the
\* code rejects: no order, wrong maker, zero amounts, zero or excessive
\* duration, a caller of beforeSwap other than the pool manager
Durations == {0, 1, MAX_ORDER_DURATION, MAX_ORDER_DURATION + 1}
SwapCallers == {PM, Deployer, "botA", "botB"}

AddBotAny == \E s \in {Deployer, "botA"}, b \in Bots : addBot(s, b)
RemoveBotAny == \E s \in {Deployer, "botA"}, b \in Bots : removeBot(s, b)
PostOrderAny ==
    /\ nextOrderId < MaxOrders
    /\ \E a \in {0, 3}, m \in {0, 2}, d \in Durations :
          postOrder("botA", Key1, TRUE, a, m, d, TRUE, NoCallback)
\* cancels by either bot under either key; the refund is refused to the maker
CancelInputs ==
    (Bots \X Keys \X {TRUE}) \cup (Makers \X {Key1} \X {FALSE})
\* swaps the pool manager forwards, and one swap from every other caller
SwapChecks ==
    ({PM} \X Bots \X Keys \X {-3}) \cup ({PM} \X Takers \X {Key1} \X {3})
    \cup ((SwapCallers \ {PM}) \X Takers \X {Key1} \X {-3})
CancelOrderAny ==
    \E in \in CancelInputs, id \in 0 .. MaxOrders :
        cancelOrder(in[1], id, in[2], in[3], NoCallback)
BeforeSwapAny ==
    \E in \in SwapChecks :
        beforeSwap(in[1], in[2], in[3], FALSE, in[4], "none", NoCallback)
PurgeExpiredOrdersAny ==
    \E refused \in {{}, {<<"token0", "botA">>}} :
        purgeExpiredOrders(Deployer, Key1, MaxPurge, refused, TRUE, NoCallback)

NextChecks ==
    \/ AddBotAny
    \/ RemoveBotAny
    \/ PostOrderAny
    \/ CancelOrderAny
    \/ BeforeSwapAny
    \/ PurgeExpiredOrdersAny
    \/ ClaimRefund
    \/ Warp

SpecChecks == Init /\ [][NextChecks]_vars

\* a market whose index is longer than the scan window: MAX_ITERATIONS + 1
\* orders of botA selling 3 token0 under Key1, the last one for at least 2
\* and the others for at least 3; botA was minted the escrowed amount on top
\* of the balances of setUp
MaxExtra == 2
BigOrders == MAX_ITERATIONS + 1

InitBig ==
    /\ admin = Deployer
    /\ pendingAdmin = ZERO
    /\ allowedBots = Bots
    /\ nextOrderId = BigOrders
    /\ orders = [i \in 0 .. (BigOrders - 1) |->
                   [maker |-> "botA", sellToken0 |-> TRUE, amountIn |-> 3,
                    minAmountOut |-> IF i = BigOrders - 1 THEN 2 ELSE 3,
                    expiry |-> 2, active |-> TRUE, poolId |-> PoolIdOf(Key1)]]
    /\ poolOrders = [p \in PoolIds |->
                       IF p = PoolIdOf(Key1)
                       THEN [i \in 1 .. BigOrders |-> i - 1] ELSE <<>>]
    /\ unclaimedBalances = [u \in Users |-> [t \in Tokens |-> 0]]
    /\ balances = [t \in Tokens |-> [h \in Holders |->
                      IF h = HOOK
                      THEN (IF t = "token0" THEN 3 * BigOrders ELSE 0)
                      ELSE InitBalance(h)]]
    /\ now = 1
    /\ trades = {}
    /\ postedKey = [i \in 0 .. (BigOrders - 1) |-> Key1]
    /\ last = Result("constructor")

\* orders are added up to MaxExtra above, and removed down to MaxExtra below,
\* the initial length
Removable == Len(poolOrders[PoolIdOf(Key1)]) > MAX_ITERATIONS - MaxExtra
PostOrderBig ==
    /\ nextOrderId < BigOrders + MaxExtra
    /\ \E sell \in BOOLEAN : postOrder("botA", Key1, sell, 3, 2, 1, TRUE, NoCallback)
CancelOrderBig ==
    /\ Removable
    /\ \E id \in {0, MAX_ITERATIONS - 1, MAX_ITERATIONS} :
          cancelOrder("botA", id, Key1, TRUE, NoCallback)
BeforeSwapBig ==
    /\ Removable
    /\ \E z \in BOOLEAN, a \in {-2, -3} :
          beforeSwap(PM, "botB", Key1, z, a, "none", NoCallback)
NextBig ==
    \/ PostOrderBig
    \/ CancelOrderBig
    \/ BeforeSwapBig

SpecBig == InitBig /\ [][NextBig]_vars

\* the same market while time passes: the index stays longer than the scan
\* window or at its length, its first and its MAX_ITERATIONS-th entry are
\* cancelled (the last entry is moved into the hole), orders of both
\* directions are added and the initial orders expire
ScanInputs == {<<FALSE, -2>>, <<FALSE, -3>>, <<TRUE, -3>>}
Longer == Len(poolOrders[PoolIdOf(Key1)]) > MAX_ITERATIONS
PostOrderScan ==
    /\ nextOrderId < BigOrders + MaxExtra
    /\ \E sell \in BOOLEAN :
          postOrder("botA", Key1, sell, 3, 2, 1, TRUE, NoCallback)
CancelOrderScan ==
    /\ Longer
    /\ \E id \in {0, MAX_ITERATIONS - 1} :
          cancelOrder("botA", id, Key1, TRUE, NoCallback)
BeforeSwapScan ==
    /\ Longer
    /\ \E in \in ScanInputs :
          beforeSwap(PM, "botB", Key1, in[1], in[2], "none", NoCallback)
NextScan ==
    \/ PostOrderScan
    \/ CancelOrderScan
    \/ BeforeSwapScan
    \/ Warp

SpecScan == InitBig /\ [][NextScan]_vars

\* ================================================================ claims
\* the asset an order offers and the asset it asks for, by its posted key
OfferedAsset(id) ==
    IF orders[id].sellToken0 THEN postedKey[id].currency0
    ELSE postedKey[id].currency1
WantedAsset(id) ==
    IF orders[id].sellToken0 THEN postedKey[id].currency1
    ELSE postedKey[id].currency0

ActiveEscrow(t) ==
    SumOver({id \in OrderIds : orders[id].active /\ OfferedAsset(id) = t},
            [id \in OrderIds |-> orders[id].amountIn])
UnclaimedTotal(t) ==
    SumOver(Users, [u \in Users |-> unclaimedBalances[u][t]])

\* index positions, within the scanned window, of the orders of market k that
\* are active, not past expiry, opposite to the taker and within his amount
Candidates(k, zeroForOne, amt) ==
    LET ids == poolOrders[PoolIdOf(k)] IN
    {i \in 1 .. Min(Len(ids), MAX_ITERATIONS) :
        /\ orders[ids[i]].active
        /\ now <= orders[ids[i]].expiry
        /\ orders[ids[i]].sellToken0 # zeroForOne
        /\ orders[ids[i]].minAmountOut <= amt}

Matched(r) ==
    r.op = "beforeSwap" /\ r.outcome = "ok" /\ r.orderId # NoOrder
FellThrough(r) ==
    r.op = "beforeSwap" /\ r.outcome = "ok" /\ r.orderId = NoOrder

\* C1 (as claimed): for each asset the hook's balance equals the sum of
\* amountIn over the active orders offering that asset.
C1_EscrowEqualsActive ==
    \A t \in Tokens : balances[t][HOOK] = ActiveEscrow(t)

\* C1 (amended): for each asset the hook's balance equals the sum of amountIn
\* over the active orders offering that asset plus the unclaimed balances
\* recorded for that asset (refunds whose push failed during a purge).
C1_EscrowConservation ==
    \A t \in Tokens : balances[t][HOOK] = ActiveEscrow(t) + UnclaimedTotal(t)

C1_Witness ==
    /\ last.op = "purgeExpiredOrders"
    /\ last.failed # {}
    /\ \E t \in Tokens : ActiveEscrow(t) > 0 /\ UnclaimedTotal(t) > 0

\* C2: an order for which a P2PTrade was emitted is never selected by a later
\* swap, in any market, for any taker, at any time.
C2_NoDoubleMatch ==
    [][\A id \in trades : ~(Matched(last') /\ last'.orderId = id)]_vars

C2_Witness ==
    /\ Matched(last)
    /\ \E j \in trades \ {last.orderId} :
          /\ postedKey[j] = postedKey[last.orderId]
          /\ orders[j].sellToken0 = orders[last.orderId].sellToken0

\* C3: on every match the ledger sends exactly minAmountOut of the taker's
\* input asset to the maker and the hook moves exactly amountIn of the maker's
\* asset from its escrow to the ledger.
C3_MatchAmounts ==
    [][Matched(last') =>
        LET id == last'.orderId
            o == orders[id]
            in == WantedAsset(id)
            out == OfferedAsset(id)
        IN /\ last'.calls[1] = Call("take", in, o.maker, o.minAmountOut)
           /\ last'.calls[3] = Call("transfer", out, PM, o.amountIn)
           /\ balances'[in][o.maker] = balances[in][o.maker] + o.minAmountOut
           /\ balances'[in][PM] = balances[in][PM] - o.minAmountOut
           /\ balances'[out][HOOK] = balances[out][HOOK] - o.amountIn
           /\ balances'[out][PM] = balances[out][PM] + o.amountIn
           /\ balances'[in][HOOK] = balances[in][HOOK]]_vars

C3_Witness ==
    /\ Matched(last)
    /\ -last.args.amountSpecified > orders[last.orderId].minAmountOut

\* C4: a whitelisted exact-input swap that returns matches the order at the
\* lowest index position, within the first MAX_ITERATIONS entries, that passes
\* the four filters (active, now <= expiry, opposite side, minAmountOut within
\* the taker's amount); that order alone is deactivated, and no order changes
\* when no entry of the window passes.
C4_FirstValidOrder ==
    [][(/\ last'.op = "beforeSwap"
        /\ last'.outcome = "ok"
        /\ last'.args.sender \in allowedBots
        /\ last'.args.amountSpecified < 0) =>
        LET sw == last'.args
            ids == poolOrders[PoolIdOf(sw.key)]
            C == Candidates(sw.key, sw.zeroForOne, -sw.amountSpecified)
        IN IF C = {}
           THEN /\ last'.orderId = NoOrder
                /\ orders' = orders
           ELSE LET first == ids[CHOOSE i \in C : \A j \in C : i <= j]
                IN /\ last'.orderId = first
                   /\ orders' = [orders EXCEPT ![first].active = FALSE]]_vars

\* a match at position MAX_ITERATIONS of an index longer than the window,
\* behind expired entries, while an order with a lower id that passes the
\* four filters is left alone: it sat beyond the window
C4_Witness ==
    /\ Matched(last)
    /\ last.scanned = MAX_ITERATIONS
    /\ Len(getPoolOrders(last.args.key)) >= MAX_ITERATIONS
    /\ \E i \in 1 .. Len(getPoolOrders(last.args.key)) :
          LET o == orders[getPoolOrders(last.args.key)[i]]
          IN o.active /\ now > o.expiry
    /\ \E j \in OrderIds \ {last.orderId} :
          /\ postedKey[j] = last.args.key
          /\ orders[j].active
          /\ now <= orders[j].expiry
          /\ orders[j].sellToken0 # last.args.zeroForOne
          /\ orders[j].minAmountOut <= -last.args.amountSpecified
          /\ j < last.orderId

\* C5: cancelling through a key other than the one the order was posted with
\* is rejected without any change (PoolMismatch when the maker cancels his
\* active order); purging through a key changes no order and no index of
\* another market, and releases escrow only for the orders it purged.
C5_CrossMarketIsolation ==
    [][/\ last'.op = "cancelOrder" =>
            \A s \in Bots, id \in OrderIds, k \in Keys :
                (k # postedKey[id] /\ cancelOrder(s, id, k, TRUE, NoCallback)) =>
                    /\ last'.outcome \in
                          {"Unauthorized", "OrderNotActive", "PoolMismatch"}
                    /\ (s = orders[id].maker /\ orders[id].active)
                          => last'.outcome = "PoolMismatch"
                    /\ UNCHANGED <<hookState, balances>>
       /\ last'.op = "purgeExpiredOrders" =>
            LET k == last'.args.key
                done == {last'.purged[i] : i \in 1 .. Len(last'.purged)}
            IN /\ \A id \in OrderIds :
                      postedKey[id] # k => orders'[id] = orders[id]
               /\ \A k2 \in Keys \ {k} :
                      poolOrders'[PoolIdOf(k2)] = poolOrders[PoolIdOf(k2)]
               /\ \A id \in done : postedKey[id] = k
               /\ \A t \in Tokens :
                      balances'[t][HOOK] = balances[t][HOOK] -
                        SumOver({id \in done \ last'.failed :
                                    OfferedAsset(id) = t},
                                [id \in OrderIds |-> orders[id].amountIn])
      ]_vars

C5_Witness ==
    /\ last.op = "cancelOrder"
    /\ last.outcome = "PoolMismatch"
    /\ \E id \in OrderIds : orders[id].active /\ postedKey[id] = Key1
    /\ balances["token0"][HOOK] + balances["token1"][HOOK] > 0

\* a whitelisted initiator made an exact-input swap within the 128-bit range
ExactInput(r) ==
    /\ r.op = "beforeSwap"
    /\ r.args.sender \in allowedBots
    /\ r.args.amountSpecified < 0
    /\ r.args.amountSpecified # Int256Min
    /\ -r.args.amountSpecified <= Int128Max

\* C6: a swap never matches an order whose expiry is earlier than the current
\* time; a swap that finds only expired orders in the market's index returns
\* the zero delta and changes nothing; an expired order stays active until a
\* cancelOrder or a purgeExpiredOrders deactivates it.
C6_ExpiredNeverMatched ==
    [][/\ Matched(last') => ~(orders[last'.orderId].expiry < now)
       /\ (/\ ExactInput(last')
           /\ \A i \in 1 .. Len(poolOrders[PoolIdOf(last'.args.key)]) :
                 orders[poolOrders[PoolIdOf(last'.args.key)][i]].expiry < now)
            => /\ FellThrough(last')
               /\ last'.delta = ZERO_DELTA
               /\ UNCHANGED <<hookState, balances, trades>>
       /\ \A id \in OrderIds :
            (orders[id].active /\ orders[id].expiry < now
                /\ ~orders'[id].active) =>
                last'.op \in {"cancelOrder", "purgeExpiredOrders"}
      ]_vars

C6_Witness ==
    /\ FellThrough(last)
    /\ ExactInput(last)
    /\ \E id \in OrderIds :
          /\ \E i \in 1 .. Len(poolOrders[PoolIdOf(last.args.key)]) :
                poolOrders[PoolIdOf(last.args.key)][i] = id
          /\ orders[id].active
          /\ orders[id].expiry < now
          /\ orders[id].sellToken0 # last.args.zeroForOne
          /\ orders[id].minAmountOut <= -last.args.amountSpecified

SwapRejections ==
    {"AmountOverflow", "TakeFailed", "TransferFailed", "SettleFailed", "Panic"}

\* C7 (as claimed): every swap the pool manager forwards either settles a
\* match or returns the zero delta; none is rejected.
C7_SwapNeverFails ==
    (last.op = "beforeSwap" /\ last.outcome # "OnlyPoolManager")
        => last.outcome = "ok"

\* C7 (amended): a swap the pool manager forwards either settles a match,
\* returns the zero delta or is rejected without any state change; it is
\* rejected only for a whitelisted initiator with a negative amountSpecified,
\* and then exactly when the amount is the minimum 256-bit value or exceeds
\* the maximum signed 128-bit value (AmountOverflow), or when a matching order
\* was found and its settlement fails (take, escrow transfer, settle, or the
\* negation of an amountIn of 2^127).
C7_SwapRejectedOnlyWhen ==
    [][(last'.op = "beforeSwap" /\ last'.outcome # "OnlyPoolManager") =>
          LET a == last'.args.amountSpecified
              exactIn == last'.args.sender \in allowedBots /\ a < 0
              overflow == a = Int256Min \/ -a > Int128Max
          IN /\ last'.outcome \in SwapRejections \cup {"ok"}
             /\ last'.outcome # "ok" =>
                   UNCHANGED <<hookState, balances, trades>>
             /\ last'.outcome = "AmountOverflow" <=> (exactIn /\ overflow)
             /\ last'.outcome \in SwapRejections \ {"AmountOverflow"} =>
                   /\ exactIn /\ ~overflow
                   /\ Candidates(last'.args.key, last'.args.zeroForOne, -a)
                         # {}
             /\ last'.outcome = "ok" =>
                   \/ Matched(last')
                   \/ FellThrough(last') /\ last'.delta = ZERO_DELTA
      ]_vars

C7_Witness ==
    /\ last.op = "beforeSwap"
    /\ last.outcome = "AmountOverflow"
    /\ last.args.sender \in allowedBots
    /\ \E id \in OrderIds : orders[id].active

\* C8: a whitelisted exact-input swap that finds no order passing the filters
\* in the scanned window returns the zero delta with fee 0, makes no take,
\* sync, transfer or settle call and changes no order, index or balance.
C8_NoMatchNoEffect ==
    [][(/\ ExactInput(last')
        /\ Candidates(last'.args.key, last'.args.zeroForOne,
                      -last'.args.amountSpecified) = {}) =>
            /\ FellThrough(last')
            /\ last'.delta = ZERO_DELTA
            /\ last'.fee = 0
            /\ last'.calls = <<>>
            /\ UNCHANGED <<hookState, balances, trades>>
      ]_vars

C8_Witness ==
    /\ FellThrough(last)
    /\ ExactInput(last)
    /\ \E id \in OrderIds :
          /\ postedKey[id] = last.args.key
          /\ orders[id].active
          /\ now <= orders[id].expiry
          /\ orders[id].sellToken0 # last.args.zeroForOne
          /\ orders[id].minAmountOut > -last.args.amountSpecified

\* C9: a swap whose initiator is not whitelisted, or whose amountSpecified is
\* zero or positive, returns the zero delta, is not rejected and changes
\* nothing, also when a compatible active order exists.
C9_UnmatchableFallsThrough ==
    [][(/\ last'.op = "beforeSwap"
        /\ last'.outcome # "OnlyPoolManager"
        /\ \/ last'.args.sender \notin allowedBots
           \/ last'.args.amountSpecified >= 0) =>
            /\ FellThrough(last')
            /\ last'.delta = ZERO_DELTA
            /\ last'.fee = 0
            /\ last'.calls = <<>>
            /\ UNCHANGED <<hookState, balances, trades>>
      ]_vars

C9_Witness ==
    /\ FellThrough(last)
    /\ last.args.sender \notin allowedBots
    /\ last.args.amountSpecified < 0
    /\ Candidates(last.args.key, last.args.zeroForOne,
                  -last.args.amountSpecified) # {}

\* C10: on every match the returned delta is (minAmountOut, -amountIn) of the
\* matched order with fee 0; its specified part is the amount taken out to the
\* maker and its unspecified part the negated amount settled from escrow.
C10_SettlementDelta ==
    Matched(last) =>
        /\ last.delta = <<orders[last.orderId].minAmountOut,
                          -orders[last.orderId].amountIn>>
        /\ last.fee = 0
        /\ last.delta[1] = last.calls[1].amount
        /\ -last.delta[2] = last.calls[4].amount

\* C11: after every operation each market's index holds exactly the ids of
\* the orders that are active and were posted under that market, each id
\* once, and getPoolOrders returns that index.
C11_IndexAgreesWithActive ==
    \A k \in Keys :
        LET ids == getPoolOrders(k) IN
        /\ {ids[i] : i \in 1 .. Len(ids)} =
              {id \in OrderIds : orders[id].active /\ postedKey[id] = k}
        /\ \A i, j \in 1 .. Len(ids) : ids[i] = ids[j] => i = j

C11_Witness ==
    /\ last.op = "cancelOrder"
    /\ last.outcome = "ok"
    /\ last.orderId = 0
    /\ nextOrderId = 2
    /\ orders[1].active
    /\ postedKey[0] = postedKey[1]
    /\ getPoolOrders(postedKey[1]) = <<1>>

\* the orders anywhere in the index of key k that pass the four filters
Compatible(k, zeroForOne, amt) ==
    LET ids == poolOrders[PoolIdOf(k)] IN
    {i \in 1 .. Len(ids) :
        /\ orders[ids[i]].active
        /\ now <= orders[ids[i]].expiry
        /\ orders[ids[i]].sellToken0 # zeroForOne
        /\ orders[ids[i]].minAmountOut <= amt}

\* C12: a swap against a market whose index is longer than MAX_ITERATIONS
\* reads at most MAX_ITERATIONS index entries and then either matches an
\* order at one of the first MAX_ITERATIONS positions or returns the zero
\* delta without any change; it is not rejected.
C12_BoundedScan ==
    [][(/\ last'.op = "beforeSwap"
        /\ last'.outcome # "OnlyPoolManager"
        /\ Len(getPoolOrders(last'.args.key)) > MAX_ITERATIONS) =>
            LET ids == getPoolOrders(last'.args.key) IN
            /\ last'.outcome = "ok"
            /\ last'.scanned <= MAX_ITERATIONS
            /\ Matched(last') =>
                  \E i \in 1 .. MAX_ITERATIONS : ids[i] = last'.orderId
            /\ ~Matched(last') =>
                  /\ last'.delta = ZERO_DELTA
                  /\ UNCHANGED <<hookState, balances, trades>>
      ]_vars

C12_Witness ==
    /\ FellThrough(last)
    /\ ExactInput(last)
    /\ last.scanned = MAX_ITERATIONS
    /\ Len(getPoolOrders(last.args.key)) > MAX_ITERATIONS
    /\ \E i \in Compatible(last.args.key, last.args.zeroForOne,
                            -last.args.amountSpecified) : i > MAX_ITERATIONS

\* C13 (as claimed): a whitelisted exact-input swap is matched whenever the
\* market's index holds an active, unexpired, opposite-direction order whose
\* minAmountOut does not exceed the input amount, and falls through only if
\* the index holds no such order.
C13_MatchWheneverCompatible ==
    [][(/\ last'.op = "beforeSwap"
        /\ last'.args.sender \in allowedBots
        /\ last'.args.amountSpecified < 0) =>
            LET C == Compatible(last'.args.key, last'.args.zeroForOne,
                                -last'.args.amountSpecified)
            IN /\ C # {} => Matched(last')
               /\ FellThrough(last') => C = {}
      ]_vars

\* C13 (amended): a whitelisted exact-input swap within the signed 128-bit
\* range is matched, against the first such order, whenever one of the first
\* MAX_ITERATIONS entries of the market's index is an active, unexpired,
\* opposite-direction order whose minAmountOut does not exceed the input
\* amount (or is rejected without any change when the settlement of that
\* match fails); it falls through only if none of the first MAX_ITERATIONS
\* entries is such an order.
C13_MatchWithinWindow ==
    [][ExactInput(last') =>
            LET ids == getPoolOrders(last'.args.key)
                C == Candidates(last'.args.key, last'.args.zeroForOne,
                                -last'.args.amountSpecified)
            IN /\ C # {} =>
                    \/ /\ Matched(last')
                       /\ \E i \in C : /\ ids[i] = last'.orderId
                                       /\ \A j \in C : i <= j
                    \/ /\ last'.outcome \in SwapRejections \ {"AmountOverflow"}
                       /\ UNCHANGED <<hookState, balances, trades>>
               /\ FellThrough(last') => C = {}
               /\ C = {} => FellThrough(last')
      ]_vars

C13_Witness ==
    /\ Matched(last)
    /\ ExactInput(last)
    /\ last.scanned = MAX_ITERATIONS
    /\ Len(getPoolOrders(last.args.key)) >= MAX_ITERATIONS

\* the index entries of key k that are active and expired
Expired(k) ==
    LET ids == getPoolOrders(k) IN
    {i \in 1 .. Len(ids) : orders[ids[i]].active /\ now > orders[ids[i]].expiry}

\* C14: when the refund transfer of an expired order fails during a purge,
\* the purge is not aborted: the order is deactivated and removed from the
\* index, the maker's unclaimed balance of the asset grows by exactly the
\* amountIn of the orders whose refund failed, the tokens stay in the hook,
\* and the call still purges min(maxPurge, number of expired entries) orders.
C14_FailedRefundIsCredited ==
    [][(last'.op = "purgeExpiredOrders" /\ last'.failed # {}) =>
          LET k == last'.args.key
              ids == poolOrders'[PoolIdOf(k)]
          IN
          /\ last'.outcome = "ok"
          /\ \A id \in last'.failed :
                /\ orders[id].active /\ ~orders'[id].active
                /\ \A i \in 1 .. Len(ids) : ids[i] # id
          /\ \A u \in Users, t \in Tokens :
                /\ unclaimedBalances'[u][t] = unclaimedBalances[u][t] +
                      SumOver({id \in last'.failed :
                                  orders[id].maker = u /\ OfferedAsset(id) = t},
                              [id \in OrderIds |-> orders[id].amountIn])
          /\ \A t \in Tokens :
                balances[t][HOOK] - balances'[t][HOOK] =
                      SumOver({id \in OrderIds :
                                  /\ orders[id].active /\ ~orders'[id].active
                                  /\ id \notin last'.failed
                                  /\ OfferedAsset(id) = t},
                              [id \in OrderIds |-> orders[id].amountIn])
          /\ Len(last'.purged) =
                Min(last'.args.maxPurge, Cardinality(Expired(k)))
      ]_vars

\* a purge of two orders whose first refund failed and whose second succeeded
C14_Witness ==
    /\ last.op = "purgeExpiredOrders"
    /\ Len(last.purged) = 2
    /\ last.purged[1] \in last.failed
    /\ last.purged[2] \notin last.failed
    /\ unclaimedBalances[orders[last.purged[1]].maker]
                        [OfferedAsset(last.purged[1])] > 0

\* C15: a purgeExpiredOrders(key, maxPurge) call by any caller returns and
\* deactivates exactly min(maxPurge, E) orders, E being the number of index
\* entries of the market that are active and expired at the call, all of them
\* among these entries; with maxPurge >= E no expired order is left in the
\* index, and with maxPurge = 0 nothing changes.
C15_PurgeCount ==
    [][last'.op = "purgeExpiredOrders" =>
          LET k == last'.args.key
              m == last'.args.maxPurge
              ids == getPoolOrders(k)
              E == Expired(k)
              gone == {id \in OrderIds : orders[id].active /\ ~orders'[id].active}
              after == poolOrders'[PoolIdOf(k)]
          IN
          /\ last'.outcome = "ok"
          /\ Cardinality(gone) = Min(m, Cardinality(E))
          /\ gone \subseteq {ids[i] : i \in E}
          /\ gone = {last'.purged[i] : i \in 1 .. Len(last'.purged)}
          /\ \A id \in OrderIds \ gone : orders'[id] = orders[id]
          /\ Len(after) = Len(ids) - Cardinality(gone)
          /\ m >= Cardinality(E) =>
                \A i \in 1 .. Len(after) :
                    ~(orders'[after[i]].active /\ now > orders'[after[i]].expiry)
          /\ m = 0 => UNCHANGED <<hookState, balances>>
      ]_vars

\* a caller that is neither admin nor whitelisted purged one of two expired
\* orders
C15_Witness ==
    /\ last.op = "purgeExpiredOrders"
    /\ last.args.sender \notin allowedBots \cup {admin}
    /\ last.args.maxPurge = 1
    /\ Len(last.purged) = 1
    /\ Expired(last.args.key) # {}

\* C16: a claimRefund that goes through transfers the caller's whole
\* unclaimed balance of the asset to the caller, and the balance is already
\* zero in storage when the transfer is issued; a second claimRefund of the
\* same caller and asset right after it is rejected and changes nothing; an
\* unclaimed balance grows only by a purge whose refund transfer failed.
C16_ClaimRefundOnce ==
    [][/\ (last'.op = "claimRefund" /\ last'.outcome = "ok") =>
            LET u == last'.calls[1].to
                t == last'.calls[1].asset
                amount == last'.calls[1].amount
            IN /\ amount = unclaimedBalances[u][t]
               /\ amount > 0
               /\ unclaimedBalances' = [unclaimedBalances EXCEPT ![u][t] = 0]
               /\ balances' = Move(balances, t, HOOK, u, amount)
               /\ last'.nested.fn # "none" =>
                     last'.nested.saw.unclaimedBalances[u][t] = 0
       /\ (last.op = "claimRefund" /\ last.outcome = "ok"
              /\ last'.op = "claimRefund") =>
            \A ok \in BOOLEAN, cb \in Callbacks :
                claimRefund(last.calls[1].to, last.calls[1].asset, ok, cb) =>
                    /\ last'.outcome = "InvalidAmounts"
                    /\ UNCHANGED <<hookState, balances>>
       /\ \A u \in Users, t \in Tokens :
            unclaimedBalances'[u][t] > unclaimedBalances[u][t] =>
                last'.op = "purgeExpiredOrders" /\ last'.failed # {}
      ]_vars

\* a claim went through while its transfer called back into the hook
C16_Witness ==
    /\ last.op = "claimRefund"
    /\ last.outcome = "ok"
    /\ last.amount = 3
    /\ last.nested.fn = "unclaimedBalances"
    /\ last.nested.saw.unclaimedBalances["botA"]["token0"] = 0

\* C17: when the token transfer of a postOrder or a cancelOrder, or a ledger
\* call or the escrow transfer of a match, fails, the call is rejected and
\* the storage and all balances are as before the call: a failed postOrder
\* creates no order, uses no id and adds no index entry, a failed cancelOrder
\* or match leaves the order active, in the index and escrowed.
C17_FailedCallChangesNothing ==
    [][/\ last'.op = "postOrder" =>
            \A cb \in RolledBack :
                postOrder("botA", Key1, TRUE, 3, 2, 1, FALSE, cb) =>
                    /\ last'.outcome # "ok"
                    /\ nextOrderId' = nextOrderId
                    /\ UNCHANGED <<hookState, balances, trades, postedKey>>
       /\ last'.op = "cancelOrder" =>
            \A id \in OrderIds, cb \in RolledBack :
                cancelOrder("botA", id, Key1, FALSE, cb) =>
                    /\ last'.outcome # "ok"
                    /\ orders'[id].active = orders[id].active
                    /\ UNCHANGED <<hookState, balances, trades, postedKey>>
       /\ last'.op = "beforeSwap" =>
            \A f \in SwapFailures \ {"none"}, cb \in RolledBack :
                beforeSwap(PM, "botB", Key1, FALSE, -3, f, cb) =>
                    /\ ~Matched(last')
                    /\ last'.nested = NoNested
                    /\ UNCHANGED <<hookState, balances, trades, postedKey>>
       /\ (/\ last'.op \in {"postOrder", "cancelOrder", "beforeSwap"}
           /\ last'.outcome \in {"TransferFailed", "TakeFailed",
                                  "SettleFailed", "Panic"}) =>
            UNCHANGED <<hookState, balances, trades, postedKey>>
      ]_vars

\* the settle call of a match failed: the order is still active, in the
\* index and escrowed
C17_Witness ==
    /\ last.op = "beforeSwap"
    /\ last.outcome = "SettleFailed"
    /\ last.args.sender \in allowedBots
    /\ \E id \in OrderIds :
          /\ orders[id].active
          /\ getPoolOrders(Key1) = <<id>>
          /\ balances["token0"][HOOK] = orders[id].amountIn

\* C18: in cancelOrder, in a match and in purgeExpiredOrders, the order is
\* inactive and out of every index when the first external call about it is
\* issued: the callee of that call, reading the storage, sees both writes.
C18_EffectsBeforeExternalCalls ==
    (/\ last.op \in {"cancelOrder", "beforeSwap", "purgeExpiredOrders"}
     /\ last.outcome = "ok"
     /\ last.nested.fn # "none")
    => /\ ~last.nested.saw.orders[last.orderId].active
       /\ \A p \in PoolIds :
            \A j \in 1 .. Len(last.nested.saw.poolOrders[p]) :
                last.nested.saw.poolOrders[p][j] # last.orderId

\* C19: a call of a state-mutating entry point made while another one is in
\* the middle of an external call is rejected.
C19_NestedCallsRejected ==
    last.nested.fn \in EntryPoints => last.nested.outcome # "ok"

\* C20: admin changes only in a successful acceptAdmin, called by the pending
\* admin, who becomes admin while pendingAdmin is cleared; pendingAdmin is
\* set only by setAdmin called by the admin, never to the zero address, and
\* setAdmin leaves admin unchanged.
AcceptedBy(s) ==
    \/ last'.op = "acceptAdmin" /\ last'.outcome = "ok" /\ acceptAdmin(s)
    \/ /\ last'.nested.fn = "acceptAdmin"
       /\ last'.nested.outcome = "ok"
       /\ last'.nested.sender = s
ProposedBy(s, a) ==
    \/ last'.op = "setAdmin" /\ last'.outcome = "ok" /\ setAdmin(s, a)
    \/ /\ last'.nested.fn = "setAdmin"
       /\ last'.nested.outcome = "ok"
       /\ last'.nested.sender = s
       /\ last'.nested.arg = a
C20_TwoStepAdmin ==
    [][/\ admin' # admin => \E s \in Users : AcceptedBy(s)
       /\ \A s \in Users :
            AcceptedBy(s) => /\ s = pendingAdmin
                             /\ admin' = s
                             /\ pendingAdmin' = ZERO
       /\ pendingAdmin' # pendingAdmin =>
            \/ \E s \in Users : AcceptedBy(s)
            \/ \E s \in Users, a \in Users : ProposedBy(s, a)
       /\ \A s \in Users, a \in Users \cup {ZERO} :
            ProposedBy(s, a) => /\ s = admin
                                /\ a # ZERO
                                /\ pendingAdmin' = a
                                /\ admin' = admin
      ]_vars
C20_Witness ==
    /\ last.op = "acceptAdmin"
    /\ last.outcome = "ok"
    /\ admin = "botA"
    /\ pendingAdmin = ZERO

\* C21: postOrder is rejected and changes nothing (no order, no id consumed,
\* no funds moved, no index entry) when the caller is not whitelisted, when
\* amountIn or minAmountOut is 0, when the duration is 0 or longer than
\* MAX_ORDER_DURATION; a stored order has positive amounts and an expiry at
\* most MAX_ORDER_DURATION after its creation, and its terms never change.
C21_PostOrderRejected ==
    [][/\ last'.op = "postOrder" =>
            \A a \in {0, 3}, m \in {0, 2}, d \in Durations :
                postOrder("botA", Key1, TRUE, a, m, d, TRUE, NoCallback) =>
                    /\ (\/ "botA" \notin allowedBots
                        \/ a = 0
                        \/ m = 0
                        \/ d = 0
                        \/ d > MAX_ORDER_DURATION)
                       => /\ last'.outcome \in
                                {"NotWhitelisted", "InvalidAmounts",
                                 "InvalidDuration", "DurationTooLong"}
                          /\ nextOrderId' = nextOrderId
                          /\ UNCHANGED <<hookState, balances, trades,
                                         postedKey>>
                    /\ last'.outcome = "ok"
                       => /\ orders'[last'.orderId].amountIn > 0
                          /\ orders'[last'.orderId].minAmountOut > 0
                          /\ orders'[last'.orderId].expiry > now
                          /\ orders'[last'.orderId].expiry
                                <= now + MAX_ORDER_DURATION
       /\ \A id \in OrderIds :
            /\ orders'[id].amountIn = orders[id].amountIn
            /\ orders'[id].minAmountOut = orders[id].minAmountOut
            /\ orders'[id].expiry = orders[id].expiry
      ]_vars
C21_Witness ==
    /\ last.op = "postOrder"
    /\ last.outcome = "DurationTooLong"
    /\ \E id \in OrderIds : orders[id].expiry > MAX_ORDER_DURATION

\* C22: cancelOrder is rejected and changes nothing when the id is not below
\* nextOrderId, when the caller is not the maker of the order, and when the
\* order is not active any more (cancelled, matched or purged).
C22_CancelOrderRejected ==
    [][last'.op = "cancelOrder" =>
        \A s \in Bots, id \in 0 .. MaxOrders, k \in Keys :
            (/\ cancelOrder(s, id, k, TRUE, NoCallback)
             /\ (\/ id >= nextOrderId
                 \/ s # orders[id].maker
                 \/ ~orders[id].active))
            => /\ last'.outcome =
                    IF id >= nextOrderId THEN "OrderNotFound"
                    ELSE IF s # orders[id].maker THEN "Unauthorized"
                    ELSE "OrderNotActive"
               /\ UNCHANGED <<hookState, balances, trades, postedKey>>
      ]_vars
C22_Witness ==
    /\ last.op = "cancelOrder"
    /\ last.outcome = "OrderNotActive"
    /\ nextOrderId = 1
    /\ trades = {0}

\* C23: a successful cancelOrder sets that order inactive and changes no
\* other order, removes exactly its id from the index of its market (the
\* other ids stay, the other indexes are untouched), and moves exactly
\* amountIn of the offered asset from the hook to the maker.
C23_CancelOrderEffect ==
    [][(last'.op = "cancelOrder" /\ last'.outcome = "ok") =>
        LET id == last'.orderId
            p == orders[id].poolId
            before == {poolOrders[p][j] : j \in 1 .. Len(poolOrders[p])}
            after == {poolOrders'[p][j] : j \in 1 .. Len(poolOrders'[p])}
        IN /\ orders[id].active
           /\ orders' = [orders EXCEPT ![id].active = FALSE]
           /\ id \in before
           /\ after = before \ {id}
           /\ Len(poolOrders'[p]) = Len(poolOrders[p]) - 1
           /\ \A q \in PoolIds \ {p} : poolOrders'[q] = poolOrders[q]
           /\ balances' = Move(balances, OfferedAsset(id), HOOK,
                               orders[id].maker, orders[id].amountIn)
           /\ UNCHANGED <<nextOrderId, unclaimedBalances, allowedBots, admin,
                          pendingAdmin>>
      ]_vars
C23_Witness ==
    /\ last.op = "cancelOrder"
    /\ last.outcome = "ok"
    /\ last.orderId = 0
    /\ postedKey[0] = Key1
    /\ getPoolOrders(Key1) = <<1>>
    /\ orders[1].active

\* C24: ids are assigned sequentially from 0 across all markets: nextOrderId
\* starts at 0, a successful postOrder returns the current nextOrderId, an id
\* no order ever had, and adds one to it; nothing else changes nextOrderId,
\* so it counts the successful postOrder calls and never decreases.
C24_SequentialIds ==
    /\ nextOrderId = 0
    /\ [][IF last'.op = "postOrder" /\ last'.outcome = "ok"
          THEN /\ last'.orderId = nextOrderId
               /\ last'.orderId \notin DOMAIN orders
               /\ DOMAIN orders' = DOMAIN orders \cup {last'.orderId}
               /\ nextOrderId' = nextOrderId + 1
          ELSE /\ nextOrderId' = nextOrderId
               /\ DOMAIN orders' = DOMAIN orders
         ]_vars
C24_Witness ==
    /\ last.op = "postOrder"
    /\ last.outcome = "ok"
    /\ last.orderId = 1
    /\ nextOrderId = 2
    /\ ~orders[0].active
    /\ postedKey[0] # postedKey[1]

\* C25: a swap forwarded by the pool manager for a whitelisted initiator with
\* a negative amountSpecified that is the minimum 256-bit value, or whose
\* magnitude exceeds the maximum signed 128-bit value, is rejected with
\* AmountOverflow, makes no external call and changes nothing; an order is
\* matched only against the whole magnitude of an amount that fits.
C25_AmountOverflowRejected ==
    [][(last'.op = "beforeSwap" /\ last'.outcome # "OnlyPoolManager") =>
          LET a == last'.args.amountSpecified IN
          /\ (/\ last'.args.sender \in allowedBots
              /\ a < 0
              /\ (a = Int256Min \/ -a > Int128Max))
             => /\ last'.outcome = "AmountOverflow"
                /\ last'.calls = <<>>
                /\ last'.orderId = NoOrder
                /\ UNCHANGED <<hookState, balances, trades, postedKey>>
          /\ Matched(last')
             => /\ a # Int256Min
                /\ -a <= Int128Max
                /\ orders[last'.orderId].minAmountOut <= -a
      ]_vars
C25_Witness ==
    /\ last.op = "beforeSwap"
    /\ last.outcome = "AmountOverflow"
    /\ last.args.amountSpecified = Int256Min
    /\ last.args.sender \in allowedBots
    /\ \E i \in 1 .. Len(getPoolOrders(last.args.key)) :
          LET o == orders[getPoolOrders(last.args.key)[i]]
          IN o.active /\ o.sellToken0 # last.args.zeroForOne /\ now <= o.expiry

\* C26: beforeSwap called by anyone but the pool manager is rejected with
\* OnlyPoolManager and changes nothing, whatever initiator, market and swap
\* parameters are passed: no order is deactivated, no escrow leaves the hook.
C26_OnlyPoolManager ==
    [][last'.op = "beforeSwap" =>
        \A c \in SwapCallers \ {PM} :
            beforeSwap(c, last'.args.sender, last'.args.key,
                       last'.args.zeroForOne, last'.args.amountSpecified,
                       "none", NoCallback)
            => /\ last'.outcome = "OnlyPoolManager"
               /\ last'.calls = <<>>
               /\ UNCHANGED <<hookState, balances, trades, postedKey>>
      ]_vars
C26_Witness ==
    /\ last.op = "beforeSwap"
    /\ last.outcome = "OnlyPoolManager"
    /\ last.args.sender \in allowedBots
    /\ Candidates(last.args.key, last.args.zeroForOne,
                  -last.args.amountSpecified) # {}

\* C27: addBot and removeBot are rejected without effect for every caller
\* but the admin; called by the admin, addBot puts the address on the
\* whitelist and removeBot takes it off, nothing else changes, and the same
\* call made again right after leaves the whitelist as the first one did.
C27_WhitelistAdminOnly ==
    [][last'.op \in {"addBot", "removeBot"} =>
        LET s == last'.args.sender
            b == last'.args.bot
        IN /\ s # admin => /\ last'.outcome = "NotAdmin"
                           /\ allowedBots' = allowedBots
           /\ s = admin =>
                /\ last'.outcome = "ok"
                /\ allowedBots' = IF last'.op = "addBot"
                                  THEN allowedBots \cup {b}
                                  ELSE allowedBots \ {b}
                /\ (/\ last.op = last'.op
                    /\ last.outcome = "ok"
                    /\ last.args.bot = b) => allowedBots' = allowedBots
           /\ UNCHANGED <<admin, pendingAdmin, nextOrderId, orders,
                          poolOrders, unclaimedBalances, balances, trades,
                          postedKey>>
      ]_vars
C27_Witness ==
    /\ last.op = "removeBot"
    /\ last.outcome = "ok"
    /\ last.args.bot = "botA"
    /\ allowedBots = {"botB"}
    /\ \E id \in OrderIds : orders[id].active /\ orders[id].maker = "botA"

\* C28: an (owner, asset) unclaimed balance grows only in purgeExpiredOrders,
\* by the amountIn of each of the owner's expired orders offering that asset
\* whose refund transfer failed in that call; it shrinks only in a claimRefund
\* of that owner that goes through, which leaves it at zero; no other
\* operation changes any unclaimed balance.
C28_UnclaimedFrame ==
    [][/\ last'.op \notin {"purgeExpiredOrders", "claimRefund"} =>
            unclaimedBalances' = unclaimedBalances
       /\ unclaimedBalances' # unclaimedBalances =>
           \A u \in Users, t \in Tokens :
        LET old == unclaimedBalances[u][t]
            new == unclaimedBalances'[u][t]
            failedOf == {id \in last'.failed :
                            orders[id].maker = u /\ OfferedAsset(id) = t}
        IN /\ new > old =>
                /\ last'.op = "purgeExpiredOrders"
                /\ failedOf # {}
                /\ \A id \in failedOf :
                      orders[id].active /\ now > orders[id].expiry
                /\ new - old =
                      SumOver(failedOf, [id \in OrderIds |-> orders[id].amountIn])
           /\ new < old =>
                /\ last'.op = "claimRefund"
                /\ last'.outcome = "ok"
                /\ last'.calls = <<Call("transfer", t, u, old)>>
                /\ new = 0
      ]_vars
C28_Witness ==
    /\ last.op = "claimRefund"
    /\ last.outcome = "ok"
    /\ last.amount = 6
    /\ \E u \in Users, t \in Tokens :
          /\ last.calls = <<Call("transfer", t, u, 6)>>
          /\ unclaimedBalances[u][t] = 0
          /\ \A id \in OrderIds : orders[id].maker = u /\ ~orders[id].active

\* C29 (as claimed): a claimRefund by the maker of an order that is past its
\* expiry and still escrowed goes through and returns the order's amountIn.
C29_ClaimRefundAfterExpiry ==
    [][last'.op = "claimRefund" =>
        \A s \in Bots, t \in Tokens :
            (/\ claimRefund(s, t, TRUE, NoCallback)
             /\ \E id \in OrderIds : /\ orders[id].maker = s
                                     /\ OfferedAsset(id) = t
                                     /\ orders[id].active
                                     /\ now > orders[id].expiry)
            => /\ last'.outcome = "ok"
               /\ balances'[t][s] > balances[t][s]
      ]_vars

\* C29 (amended): claimRefund pays the caller the whole unclaimed balance
\* recorded for him and the asset, is rejected (InvalidAmounts) when that
\* balance is zero, whatever orders of the caller have expired, and is
\* rejected without any change when the token transfer fails. The balance is
\* zero at deployment and grows only in a purgeExpiredOrders call, by the
\* amountIn of the caller's expired orders whose refund transfer failed in
\* that call. A purge, whoever calls it, deactivates only active orders past
\* their expiry, all of the market's when maxPurge allows, and for each
\* either transfers its amountIn to the maker or records it as unclaimed.
\* cancelOrder by the maker of an active order past its expiry, with the key
\* the order was posted under, refunds exactly its amountIn if the token
\* transfer goes through and is rejected without any change otherwise.
\* (The calls are matched with the callback their callee made, if any.)
C29_RefundAfterExpiry ==
    /\ \A u \in Users, t \in Tokens : unclaimedBalances[u][t] = 0
    /\ [][/\ last'.op = "claimRefund" =>
                \A s \in Bots, t \in Tokens, ok \in BOOLEAN,
                   cb \in {c \in Callbacks : c.fn = last'.nested.fn} :
                    claimRefund(s, t, ok, cb) =>
                        IF unclaimedBalances[s][t] = 0
                        THEN /\ last'.outcome = "InvalidAmounts"
                             /\ UNCHANGED <<hookState, balances>>
                        ELSE IF ~ok
                        THEN /\ last'.outcome = "TransferFailed"
                             /\ UNCHANGED <<hookState, balances>>
                        ELSE /\ last'.outcome = "ok"
                             /\ last'.amount = unclaimedBalances[s][t]
                             /\ balances' = Move(balances, t, HOOK, s,
                                                 unclaimedBalances[s][t])
                             /\ unclaimedBalances' =
                                   [unclaimedBalances EXCEPT ![s][t] = 0]
                             /\ UNCHANGED <<orders, poolOrders>>
          /\ \A u \in Users, t \in Tokens :
                unclaimedBalances'[u][t] > unclaimedBalances[u][t] =>
                    /\ last'.op = "purgeExpiredOrders"
                    /\ \E id \in last'.failed :
                          /\ orders[id].maker = u
                          /\ OfferedAsset(id) = t
                          /\ orders[id].active
                          /\ now > orders[id].expiry
          /\ last'.op = "purgeExpiredOrders" =>
                LET ids == getPoolOrders(last'.args.key)
                    P == {last'.purged[i] : i \in 1 .. Len(last'.purged)}
                    Of(S, u, t) == {id \in S : /\ orders[id].maker = u
                                               /\ OfferedAsset(id) = t}
                    amountIn == [id \in OrderIds |-> orders[id].amountIn]
                IN /\ \A id \in P : /\ orders[id].active
                                     /\ now > orders[id].expiry
                                     /\ ~orders'[id].active
                   /\ Cardinality(Expired(last'.args.key))
                          <= last'.args.maxPurge =>
                         P = {ids[i] : i \in Expired(last'.args.key)}
                   /\ last'.failed \subseteq P
                   /\ \A u \in Users, t \in Tokens :
                         /\ balances'[t][u] = balances[t][u]
                               + SumOver(Of(P \ last'.failed, u, t), amountIn)
                         /\ unclaimedBalances'[u][t] = unclaimedBalances[u][t]
                               + SumOver(Of(last'.failed, u, t), amountIn)
          /\ last'.op = "cancelOrder" =>
                \A id \in OrderIds, ok \in BOOLEAN,
                   cb \in {c \in Callbacks : c.fn = last'.nested.fn} :
                    (/\ cancelOrder(orders[id].maker, id, postedKey[id], ok, cb)
                     /\ orders[id].active
                     /\ now > orders[id].expiry)
                    => IF ok
                       THEN /\ last'.outcome = "ok"
                            /\ ~orders'[id].active
                            /\ balances' = Move(balances, OfferedAsset(id),
                                                HOOK, orders[id].maker,
                                                orders[id].amountIn)
                       ELSE /\ last'.outcome = "TransferFailed"
                            /\ UNCHANGED <<hookState, balances>>
         ]_vars
C29_Witness ==
    /\ last.op = "claimRefund"
    /\ last.outcome = "InvalidAmounts"
    /\ \E id \in OrderIds : /\ orders[id].active
                            /\ now > orders[id].expiry
                            /\ orders[id].maker \in allowedBots
                            /\ unclaimedBalances[orders[id].maker]
                                                [OfferedAsset(id)] = 0

\* the escrow of asset t the index of market p stands for
IndexedEscrow(p, t) ==
    LET ids == poolOrders[p]
    IN SumOver({i \in 1 .. Len(ids) : OfferedAsset(ids[i]) = t},
               [i \in 1 .. Len(ids) |-> orders[ids[i]].amountIn])

\* C30: after every operation, for each asset, the hook's balance is the sum,
\* over all markets, of the amountIn of the orders in the market's index that
\* offer the asset, plus all unclaimed balances of the asset; so every active
\* order and every unclaimed balance is covered by the hook's balance, also
\* when two markets share the asset.
C30_CustodyBacked ==
    \A t \in Tokens :
        /\ balances[t][HOOK] =
              SumOver(PoolIds, [p \in PoolIds |-> IndexedEscrow(p, t)])
              + UnclaimedTotal(t)
        /\ \A id \in OrderIds :
              (orders[id].active /\ OfferedAsset(id) = t)
              => orders[id].amountIn <= balances[t][HOOK]
        /\ \A u \in Users : unclaimedBalances[u][t] <= balances[t][HOOK]
C30_Witness ==
    \E t \in Tokens :
        /\ IndexedEscrow(PoolIdOf(Key1), t) > 0
        /\ IndexedEscrow(PoolIdOf(Key2), t) > 0
        /\ balances[t][HOOK] = 6

\* C31: over any sequence of operations, nested calls from inside a token
\* transfer or a ledger call included, the escrow of an order leaves the hook
\* at most once: an order is closed once and never reopened; it is closed by
\* exactly one of a match, a cancel and a purge; the hook pays out, per
\* asset, exactly the amountIn of the orders closed in the step whose refund
\* was not kept, plus the unclaimed balance a claimRefund zeroes, and a purge
\* keeps exactly the amountIn of the refunds that failed as unclaimed balance.
C31_EscrowLeavesOnce ==
    [][LET closed == {id \in OrderIds : orders[id].active /\ ~orders'[id].active}
           amt == [id \in OrderIds |-> orders[id].amountIn]
           claim == last'.op = "claimRefund" /\ last'.outcome = "ok"
       IN
       /\ \A id \in OrderIds : ~orders[id].active => ~orders'[id].active
       /\ \A id \in trades' : ~orders'[id].active
       /\ closed =
            IF Matched(last') THEN {last'.orderId}
            ELSE IF last'.op = "cancelOrder" /\ last'.outcome = "ok"
                 THEN {last'.orderId}
            ELSE IF last'.op = "purgeExpiredOrders"
                 THEN {last'.purged[i] : i \in 1 .. Len(last'.purged)}
            ELSE {}
       /\ Matched(last') => trades' = trades \cup {last'.orderId}
       /\ ~Matched(last') => trades' = trades
       /\ last'.nested.fn \in
            {"postOrder", "cancelOrder", "beforeSwap", "purgeExpiredOrders",
             "claimRefund"} => last'.nested.outcome # "ok"
       /\ ~(last'.op = "postOrder" /\ last'.outcome = "ok") =>
            \A t \in Tokens :
              LET paid == SumOver({id \in closed \ last'.failed :
                                      OfferedAsset(id) = t}, amt)
                  kept == SumOver({id \in closed \cap last'.failed :
                                      OfferedAsset(id) = t}, amt)
                  before == UnclaimedTotal(t)
                  after == SumOver(Users,
                              [u \in Users |-> unclaimedBalances'[u][t]])
              IN /\ claim => /\ closed = {}
                             /\ balances[t][HOOK] - balances'[t][HOOK]
                                   = before - after
                             /\ after <= before
                 /\ ~claim => /\ balances[t][HOOK] - balances'[t][HOOK] = paid
                              /\ after - before = kept
      ]_vars
C31_Witness ==
    /\ last.op = "claimRefund"
    /\ last.outcome = "ok"
    /\ last.nested.fn = "claimRefund"
    /\ last.nested.outcome = "ReentrancyGuardReentrantCall"
    /\ \E id \in OrderIds : ~orders[id].active /\ id \notin trades
    /\ trades # {}

\* C32 (as claimed): whether cancelOrder goes through depends only on the
\* order existing, the caller being its maker, the order being active and
\* the key being the order's: the maker of an active order always gets the
\* full amountIn back.
C32_CancelDependsOnlyOnOrder ==
    [][last'.op = "cancelOrder" =>
        \A s \in Bots, id \in OrderIds, k \in Keys, ok \in BOOLEAN :
            (/\ cancelOrder(s, id, k, ok, NoCallback)
             /\ s = orders[id].maker
             /\ orders[id].active
             /\ PoolIdOf(k) = orders[id].poolId)
            => /\ last'.outcome = "ok"
               /\ balances'[OfferedAsset(id)][s]
                     = balances[OfferedAsset(id)][s] + orders[id].amountIn
      ]_vars

\* C32 (amended): cancelOrder goes through exactly when the order exists,
\* the caller is its maker, the order is active, the key is the order's and
\* the token transfer to the maker goes through; it then returns the full
\* amountIn, also after the expiry and also when the maker is not on the
\* whitelist any more; otherwise it is rejected and changes nothing.
C32_CancelWheneverTransferable ==
    [][last'.op = "cancelOrder" =>
        \A s \in Bots, id \in 0 .. MaxOrders, k \in Keys, ok \in BOOLEAN :
            cancelOrder(s, id, k, ok, NoCallback) =>
                IF /\ id < nextOrderId
                   /\ s = orders[id].maker
                   /\ orders[id].active
                   /\ PoolIdOf(k) = orders[id].poolId
                   /\ ok
                THEN /\ last'.outcome = "ok"
                     /\ ~orders'[id].active
                     /\ balances' = Move(balances, OfferedAsset(id), HOOK, s,
                                         orders[id].amountIn)
                ELSE /\ last'.outcome # "ok"
                     /\ UNCHANGED <<hookState, balances, trades, postedKey>>
      ]_vars
C32_Witness ==
    /\ last.op = "cancelOrder"
    /\ last.outcome = "ok"
    /\ now > orders[last.orderId].expiry
    /\ orders[last.orderId].maker \notin allowedBots
    /\ balances[OfferedAsset(last.orderId)][HOOK] = 0

\* C33: purgeExpiredOrders closes, removes and refunds only orders that are
\* active with now > expiry and leaves every other order and index entry as
\* it is; a match takes only an order with now <= expiry; so an active order
\* at now = expiry is left by a purge of its market and is matched by a
\* compatible swap that scans it.
C33_PurgeOnlyExpired ==
    [][/\ last'.op = "purgeExpiredOrders" =>
            LET done == {last'.purged[i] : i \in 1 .. Len(last'.purged)}
                ids == getPoolOrders(last'.args.key)
                left == poolOrders'[PoolIdOf(last'.args.key)]
            IN /\ \A id \in done : orders[id].active /\ now > orders[id].expiry
               /\ \A id \in OrderIds \ done : orders'[id] = orders[id]
               /\ \A i \in 1 .. Len(ids) :
                    (~orders[ids[i]].active \/ now <= orders[ids[i]].expiry)
                    => /\ ids[i] \notin done
                       /\ \E j \in 1 .. Len(left) : left[j] = ids[i]
               /\ \A t \in Tokens, u \in Users :
                    (\A id \in done : orders[id].maker # u) =>
                        /\ balances'[t][u] = balances[t][u]
                        /\ unclaimedBalances'[u][t] = unclaimedBalances[u][t]
       /\ Matched(last') => /\ orders[last'.orderId].active
                            /\ now <= orders[last'.orderId].expiry
       /\ FellThrough(last') /\ ExactInput(last') =>
            \A i \in 1 .. Len(getPoolOrders(last'.args.key)) :
                LET o == orders[getPoolOrders(last'.args.key)[i]]
                IN ~(/\ i <= MAX_ITERATIONS
                     /\ o.active
                     /\ now = o.expiry
                     /\ o.sellToken0 # last'.args.zeroForOne
                     /\ o.minAmountOut <= -last'.args.amountSpecified)
      ]_vars
C33_Witness ==
    /\ last.op = "purgeExpiredOrders"
    /\ Len(last.purged) = 1
    /\ last.args.maxPurge = 2
    /\ \E i \in 1 .. Len(getPoolOrders(last.args.key)) :
          LET o == orders[getPoolOrders(last.args.key)[i]]
          IN o.active /\ now = o.expiry

\* C34: every order postOrder accepts is settled without arithmetic error:
\* a swap that matches it never aborts on the negation of amountIn, and the
\* unspecified part of the delta it returns is exactly -amountIn.
C34_AcceptedOrderSettles ==
    [][last'.op = "beforeSwap" =>
          /\ last'.outcome # "Panic"
          /\ Matched(last') =>
                /\ last'.delta[2] = -orders[last'.orderId].amountIn
                /\ last'.delta[2] < 0
      ]_vars

\* C35: on a match the hook issues exactly four ledger interactions in the
\* order take(input asset, maker, minAmountOut), sync(output asset), transfer
\* of amountIn of the output asset from the hook to the ledger, settle; the
\* increase of the ledger's balance of the output asset between sync and
\* settle is exactly amountIn; one take and one settle are issued per match,
\* and a swap that does not match issues none.
C35_LedgerCallOrder ==
    [][last'.op = "beforeSwap" =>
         IF Matched(last')
         THEN LET id == last'.orderId
                  o == orders[id]
                  in == WantedAsset(id)
                  out == OfferedAsset(id)
                  calls == last'.calls
              IN /\ [i \in DOMAIN calls |-> calls[i].fn] =
                        <<"take", "sync", "transfer", "settle">>
                 /\ calls[1] = Call("take", in, o.maker, o.minAmountOut)
                 /\ calls[2].asset = out
                 /\ calls[3] = Call("transfer", out, PM, o.amountIn)
                 /\ calls[4].asset = out
                 /\ calls[4].amount = o.amountIn
                 /\ calls[4].amount = balances'[out][PM] - balances[out][PM]
                 /\ Cardinality({i \in DOMAIN calls : calls[i].fn = "take"}) = 1
                 /\ Cardinality({i \in DOMAIN calls : calls[i].fn = "settle"}) = 1
         ELSE last'.calls = <<>>
      ]_vars

C35_Witness ==
    /\ Matched(last)
    /\ Len(last.calls) = 4
    /\ last.calls[4].amount = orders[last.orderId].amountIn
    /\ last.calls[4].amount # last.calls[1].amount
    /\ balances[last.calls[4].asset][PM] > last.calls[4].amount

\* C36: in every step every order created so far keeps its maker, direction,
\* amountIn, minAmountOut, expiry and poolId and stays in the orders mapping;
\* the only field a step changes is active, and only from true to false, so
\* an inactive order stays inactive and readable under its id.
C36_OrderRecordsPermanent ==
    [][/\ DOMAIN orders \subseteq DOMAIN orders'
       /\ nextOrderId' >= nextOrderId
       /\ \A id \in DOMAIN orders :
             /\ [orders'[id] EXCEPT !.active = orders[id].active] = orders[id]
             /\ orders'[id].active => orders[id].active
      ]_vars

C36_Witness ==
    /\ last.op = "cancelOrder"
    /\ last.outcome = "ok"
    /\ \E id \in OrderIds \ {last.orderId} :
          /\ id \in trades
          /\ id < last.orderId
          /\ ~orders[id].active
          /\ ~orders[last.orderId].active
          /\ orders[id].maker = orders[last.orderId].maker
          /\ orders[id].poolId = orders[last.orderId].poolId
          /\ orders[id].sellToken0 = orders[last.orderId].sellToken0
          /\ orders[id].amountIn > 0

================================================================
